---- MODULE Spec2Model ----
(***************************************************************************)
(* Inventory movement and stock consistency of lite-thinking.              *)
(*                                                                         *)
(* Two layers are modelled:                                                *)
(*   - the domain entity dominio/entidades/inventario.py (variable inv,    *)
(*     specification Spec): one Inventario object held in memory and the   *)
(*     methods called on it;                                               *)
(*   - the persistence layer backend/apps/inventario (variables db, tabla, *)
(*     req, specification SpecPersistencia): one inventarios row, the      *)
(*     movimientos_inventario table and the HTTP requests that run         *)
(*     against them, one database statement at a time.  models.py builds   *)
(*     the domain dataclasses with keywords they do not declare, so the    *)
(*     keyword sets of both sides are part of the model.                   *)
(***************************************************************************)
EXTENDS Integers, Sequences, FiniteSets, TLC

\* Largest quantity a caller passes in.
MaxCantidad == 1
\* Largest |cantidad_actual| the model follows.
MaxStock == 2
\* Largest number of movements in a ledger.
MaxMovimientos == 2

\* dominio/entidades/inventario.py: TipoMovimiento
TipoMovimiento == {"entrada", "salida", "ajuste", "devolucion"}

\* Quantities passed by callers: zero and a negative value included.
Cantidades == (-1)..MaxCantidad
\* Reasons passed by callers: empty, blank and a real one.
Motivos == {"", " ", "conteo"}
\* precio_unitario: <<>> is None, <<p>> is Decimal p.
Precios == {<<>>, <<-1>>}

\* str.strip() on the reasons of the model.
Strip(m) == IF m = " " THEN "" ELSE m

Abs(x) == IF x < 0 THEN -x ELSE x

\* An exception is a record; NoError stands for a normal return.
NoError == "ok"

-----------------------------------------------------------------------------
(* Domain entity                                                           *)

\* validar without the rule on cantidad.
MovimientoValidar_sin_cantidad(cantidad, motivo, precio) ==
    IF motivo = "" \/ Strip(motivo) = "" THEN "ValueError: El motivo es obligatorio"
    ELSE IF precio # <<>> /\ precio[1] < 0
         THEN "ValueError: El precio unitario no puede ser negativo"
    ELSE NoError

\* MovimientoInventario.validar: the first rule that fails, or NoError.
MovimientoValidar(cantidad, motivo, precio) ==
    IF cantidad <= 0 THEN "ValueError: La cantidad debe ser mayor a 0"
    ELSE IF motivo = "" \/ Strip(motivo) = "" THEN "ValueError: El motivo es obligatorio"
    ELSE IF precio # <<>> /\ precio[1] < 0
         THEN "ValueError: El precio unitario no puede ser negativo"
    ELSE NoError

\* MovimientoInventario(...): __post_init__ validates the new object.
\* ajuste_de / ajuste_a are the two numbers ajustar_inventario formats into
\* the motivo string ("... (de X a Y)"); 0 for the other types.
MovimientoInventario(tipo, cantidad, motivo, precio, de, a) ==
    [error |-> MovimientoValidar(cantidad, motivo, precio),
     mov   |-> [tipo |-> tipo, cantidad |-> cantidad, motivo |-> motivo,
                precio_unitario |-> precio, ajuste_de |-> de, ajuste_a |-> a]]

\* Inventario.validar on the two quantities (producto_id is fixed and valid).
InventarioValidar(actual, reservada) ==
    IF actual < 0 THEN "ValueError: La cantidad actual no puede ser negativa"
    ELSE IF reservada < 0 THEN "ValueError: La cantidad reservada no puede ser negativa"
    ELSE IF reservada > actual
         THEN "ValueError: La cantidad reservada no puede ser mayor a la cantidad actual"
    ELSE NoError

\* An availability that counts reserved stock as available.
cantidad_disponible_sin_reserva(i) == i.cantidad_actual

\* Inventario.cantidad_disponible
cantidad_disponible(i) == i.cantidad_actual - i.cantidad_reservada

\* A method call returns the object after the call and the exception raised.
Raise(i, e) == [inv |-> i, error |-> e]
Return(i)   == [inv |-> i, error |-> NoError]

\* registrar_entrada that adds to cantidad_actual before it builds the
\* movement.
registrar_entrada_antes(i, cantidad, motivo, precio) ==
    IF cantidad <= 0 THEN Raise(i, "ValueError: La cantidad debe ser mayor a 0")
    ELSE LET m == MovimientoInventario("entrada", cantidad, motivo, precio, 0, 0)
             j == [i EXCEPT !.cantidad_actual = @ + cantidad]
         IN IF m.error # NoError THEN Raise(j, m.error)
            ELSE Return([j EXCEPT !.movimientos = Append(@, m.mov)])

\* Inventario.registrar_entrada
registrar_entrada(i, cantidad, motivo, precio) ==
    IF cantidad <= 0 THEN Raise(i, "ValueError: La cantidad debe ser mayor a 0")
    ELSE LET m == MovimientoInventario("entrada", cantidad, motivo, precio, 0, 0) IN
         IF m.error # NoError THEN Raise(i, m.error)
         ELSE Return([i EXCEPT !.cantidad_actual = @ + cantidad,
                               !.movimientos = Append(@, m.mov)])

\* registrar_salida that stops cantidad_actual at 0 and still records the
\* whole quantity.
registrar_salida_piso(i, cantidad, motivo, verificar_disponibilidad) ==
    IF cantidad <= 0 THEN Raise(i, "ValueError: La cantidad debe ser mayor a 0")
    ELSE IF verificar_disponibilidad /\ cantidad > cantidad_disponible(i)
         THEN Raise(i, "ValueError: No hay suficiente inventario disponible")
    ELSE LET m == MovimientoInventario("salida", cantidad, motivo, <<>>, 0, 0) IN
         IF m.error # NoError THEN Raise(i, m.error)
         ELSE Return([i EXCEPT !.cantidad_actual = IF @ - cantidad < 0 THEN 0 ELSE @ - cantidad,
                               !.movimientos = Append(@, m.mov)])

\* Inventario.registrar_salida
registrar_salida(i, cantidad, motivo, verificar_disponibilidad) ==
    IF cantidad <= 0 THEN Raise(i, "ValueError: La cantidad debe ser mayor a 0")
    ELSE IF verificar_disponibilidad /\ cantidad > cantidad_disponible(i)
         THEN Raise(i, "ValueError: No hay suficiente inventario disponible")
    ELSE LET m == MovimientoInventario("salida", cantidad, motivo, <<>>, 0, 0) IN
         IF m.error # NoError THEN Raise(i, m.error)
         ELSE Return([i EXCEPT !.cantidad_actual = @ - cantidad,
                               !.movimientos = Append(@, m.mov)])

\* Inventario.reservar
reservar(i, cantidad) ==
    IF cantidad <= 0 THEN Raise(i, "ValueError: La cantidad debe ser mayor a 0")
    ELSE IF cantidad > cantidad_disponible(i)
         THEN Raise(i, "ValueError: No hay suficiente inventario para reservar")
    ELSE Return([i EXCEPT !.cantidad_reservada = @ + cantidad])

\* liberar_reserva that refuses to release the whole reservation.
liberar_reserva_estricta(i, cantidad) ==
    IF cantidad <= 0 THEN Raise(i, "ValueError: La cantidad debe ser mayor a 0")
    ELSE IF cantidad >= i.cantidad_reservada
         THEN Raise(i, "ValueError: No se puede liberar mas de lo reservado")
    ELSE Return([i EXCEPT !.cantidad_reservada = @ - cantidad])

\* Inventario.liberar_reserva
liberar_reserva(i, cantidad) ==
    IF cantidad <= 0 THEN Raise(i, "ValueError: La cantidad debe ser mayor a 0")
    ELSE IF cantidad > i.cantidad_reservada
         THEN Raise(i, "ValueError: No se puede liberar mas de lo reservado")
    ELSE Return([i EXCEPT !.cantidad_reservada = @ - cantidad])

\* ajustar_inventario that starts the movement list again with its movement.
ajustar_inventario_reemplaza(i, nueva_cantidad, motivo) ==
    IF nueva_cantidad < 0
    THEN Raise(i, "ValueError: La nueva cantidad no puede ser negativa")
    ELSE LET diferencia == nueva_cantidad - i.cantidad_actual
             m == MovimientoInventario("ajuste", Abs(diferencia), "Ajuste: motivo",
                                       <<>>, i.cantidad_actual, nueva_cantidad)
         IN IF m.error # NoError THEN Raise(i, m.error)
            ELSE Return([i EXCEPT !.cantidad_actual = nueva_cantidad,
                                  !.movimientos = <<m.mov>>])

\* ajustar_inventario that records the new quantity in place of the distance
\* from the old one.
ajustar_inventario_nueva(i, nueva_cantidad, motivo) ==
    IF nueva_cantidad < 0
    THEN Raise(i, "ValueError: La nueva cantidad no puede ser negativa")
    ELSE LET m == MovimientoInventario("ajuste", nueva_cantidad, "Ajuste: motivo",
                                       <<>>, i.cantidad_actual, nueva_cantidad)
         IN IF m.error # NoError THEN Raise(i, m.error)
            ELSE Return([i EXCEPT !.cantidad_actual = nueva_cantidad,
                                  !.movimientos = Append(@, m.mov)])

\* Inventario.ajustar_inventario
ajustar_inventario(i, nueva_cantidad, motivo) ==
    IF nueva_cantidad < 0
    THEN Raise(i, "ValueError: La nueva cantidad no puede ser negativa")
    ELSE LET diferencia == nueva_cantidad - i.cantidad_actual
             \* f"Ajuste: {motivo} (de ... a ...)" is never blank
             m == MovimientoInventario("ajuste", Abs(diferencia), "Ajuste: motivo",
                                       <<>>, i.cantidad_actual, nueva_cantidad)
         IN IF m.error # NoError THEN Raise(i, m.error)
            ELSE Return([i EXCEPT !.cantidad_actual = nueva_cantidad,
                                  !.movimientos = Append(@, m.mov)])

-----------------------------------------------------------------------------
(* Persistence layer                                                       *)

\* HTTP requests that can be in flight together.
NumPeticiones == 2
Peticiones == 1..NumPeticiones

\* The keyword arguments the dataclasses of dominio/entidades/inventario.py
\* declare, and those without a default.
CamposMovimiento ==
    {"tipo", "cantidad", "motivo", "usuario_id", "fecha", "precio_unitario", "id"}
RequeridosMovimiento == {"tipo", "cantidad", "motivo", "usuario_id"}
CamposInventario ==
    {"producto_id", "cantidad_actual", "cantidad_reservada", "ubicacion", "lote",
     "fecha_actualizacion", "id"}
RequeridosInventario == {"producto_id", "cantidad_actual"}

TypeErrors ==
    {"TypeError: got an unexpected keyword argument",
     "TypeError: missing required positional argument"}

\* A constructor that takes whatever keywords it is given and goes on to
\* validate.
Dataclass_init_laxo(campos, requeridos, kwargs, validar) == validar

\* The __init__ a dataclass generates, called with keywords only: a TypeError
\* for a keyword that is not a field or for a field without default that is
\* not given; otherwise __post_init__ runs validar.
Dataclass_init(campos, requeridos, kwargs, validar) ==
    IF ~(kwargs \subseteq campos) THEN "TypeError: got an unexpected keyword argument"
    ELSE IF ~(requeridos \subseteq kwargs)
         THEN "TypeError: missing required positional argument"
    ELSE validar

\* "except ValueError as e: raise ValidationError(str(e))" around a
\* constructor call: any other exception passes through.
ExceptValueError(e) ==
    IF e = NoError \/ e \in TypeErrors THEN e ELSE "ValidationError"

\* backend/apps/inventario/models.py: MovimientoInventario.save.  The domain
\* object is built with inventario_id, tipo, cantidad and "motivo or ''"
\* before super().save(); when the constructor raises, nothing is inserted.
MovimientoInventario_save(cantidad, motivo) ==
    ExceptValueError(
        Dataclass_init(CamposMovimiento, RequeridosMovimiento,
                       {"inventario_id", "tipo", "cantidad", "motivo"},
                       MovimientoValidar(cantidad, motivo, <<>>)))

\* models.py: Inventario.save.  The domain Inventario is built from
\* producto_id, the two quantities and ubicacion before super().save(); when
\* the constructor raises, no UPDATE runs.
Inventario_save(inst) ==
    ExceptValueError(
        Dataclass_init(CamposInventario, RequeridosInventario,
                       {"producto_id", "cantidad_actual", "cantidad_reservada", "ubicacion"},
                       InventarioValidar(inst.cantidad_actual, inst.cantidad_reservada)))

\* models.py: Inventario.to_domain: the exception of the constructor call.
Modelo_to_domain(inst) ==
    Dataclass_init(CamposInventario, RequeridosInventario,
                   {"id", "producto_id", "cantidad_actual", "cantidad_reservada",
                    "ubicacion", "fecha_creacion", "fecha_actualizacion"},
                   InventarioValidar(inst.cantidad_actual, inst.cantidad_reservada))

\* models.py: Inventario.cantidad_disponible (property): to_domain(), then
\* the domain cantidad_disponible().
Modelo_cantidad_disponible(inst) ==
    [error |-> Modelo_to_domain(inst), valor |-> cantidad_disponible(inst)]

\* A model method runs on the instance inst it was called on.  It yields the
\* exception raised up to and including MovimientoInventario.objects.create
\* (error), the row it hands to create (fila) and the instance it then passes
\* to save().
Fila(tipo, cantidad, motivo) == [tipo |-> tipo, cantidad |-> cantidad, motivo |-> motivo]

Metodo(e, fila, inst) ==
    [error |-> IF e # NoError THEN e
               ELSE MovimientoInventario_save(fila.cantidad, fila.motivo),
     fila  |-> fila,
     inst  |-> inst]

\* models.py: Inventario.registrar_entrada
Modelo_registrar_entrada(inst, cantidad, motivo) ==
    Metodo(NoError, Fila("entrada", cantidad, motivo),
           [inst EXCEPT !.cantidad_actual = @ + cantidad])

\* models.py: Inventario.registrar_salida
Modelo_registrar_salida(inst, cantidad, motivo) ==
    LET d == Modelo_cantidad_disponible(inst) IN
    Metodo(IF d.error # NoError THEN d.error
           ELSE IF d.valor < cantidad THEN "ValidationError: Stock insuficiente"
           ELSE NoError,
           Fila("salida", cantidad, motivo),
           [inst EXCEPT !.cantidad_actual = @ - cantidad])

\* models.py: Inventario.ajustar_inventario
Modelo_ajustar_inventario(inst, nueva_cantidad, motivo) ==
    LET diferencia == nueva_cantidad - inst.cantidad_actual IN
    Metodo(NoError, Fila("ajuste", Abs(diferencia), motivo),
           [inst EXCEPT !.cantidad_actual = nueva_cantidad])

\* serializers.py: MovimientoInventarioCreateSerializer.create, dispatch on tipo;
\* the devolucion branch inserts the row and adds to cantidad_actual itself.
Serializer_create(inst, tipo, cantidad, motivo) ==
    CASE tipo = "entrada" -> Modelo_registrar_entrada(inst, cantidad, motivo)
      [] tipo = "salida"  -> Modelo_registrar_salida(inst, cantidad, motivo)
      [] tipo = "ajuste"  -> Modelo_ajustar_inventario(inst, cantidad, motivo)
      [] OTHER            -> Metodo(NoError, Fila("devolucion", cantidad, motivo),
                                    [inst EXCEPT !.cantidad_actual = @ + cantidad])

\* models.py: Inventario.reservar: the exception raised before save() and the
\* instance handed to save().
Modelo_reservar(inst, cantidad) ==
    LET d == Modelo_cantidad_disponible(inst) IN
    [error |-> IF d.error # NoError THEN d.error
               ELSE IF d.valor < cantidad
                    THEN "ValidationError: Stock disponible insuficiente para reservar"
               ELSE NoError,
     inst  |-> [inst EXCEPT !.cantidad_reservada = @ + cantidad]]

\* models.py: Inventario.liberar_reserva: the exception raised before save()
\* and the instance handed to save().
Modelo_liberar_reserva(inst, cantidad) ==
    [error |-> IF inst.cantidad_reservada < cantidad
               THEN "ValidationError: No hay suficiente cantidad reservada"
               ELSE NoError,
     inst  |-> [inst EXCEPT !.cantidad_reservada = @ - cantidad]]

\* serializers.py: ReservaInventarioSerializer: cantidad = IntegerField(min_value=1)
\* and validate_cantidad against cantidad_disponible of the view's instance.
ReservaSerializer_is_valid(inst, value) ==
    LET d == Modelo_cantidad_disponible(inst) IN
    IF value < 1 THEN "400: serializer.errors"
    ELSE IF d.error # NoError THEN d.error
    ELSE IF value > d.valor THEN "400: serializer.errors"
    ELSE NoError

\* A field of the body of a PUT/PATCH: <<>> when it is not sent, <<v>> when
\* it is sent with value v.
Dato(d, actual) == IF d = <<>> THEN actual ELSE d[1]

\* serializers.py: InventarioUpdateSerializer.validate, then
\* ModelSerializer.update: the fields sent are set on the instance, which is
\* handed to save().
UpdateSerializer(inst, datos) ==
    LET actual    == Dato(datos.cantidad_actual, inst.cantidad_actual)
        reservada == Dato(datos.cantidad_reservada, inst.cantidad_reservada)
    IN [error |-> IF reservada > actual THEN "400: serializer.errors" ELSE NoError,
        inst  |-> [cantidad_actual |-> actual, cantidad_reservada |-> reservada]]

\* serializers.py: MovimientoInventarioCreateSerializer, cantidad = IntegerField(min_value=1)
Serializer_is_valid(cantidad) == cantidad >= 1

-----------------------------------------------------------------------------
(* State                                                                   *)

VARIABLES
    inv,        \* the domain Inventario object
    inicial,    \* cantidad_actual the object was constructed with
    ultima,     \* the last method call: its arguments, the object before, the exception,
                \* and whether it is a release that follows a reservation of its quantity
    db,         \* the inventarios row: cantidad_actual, cantidad_reservada
    db0,        \* the row before the first request
    tabla,      \* the movimientos_inventario table, in insertion order
    req,        \* the requests: position, arguments, in-memory instances, outcome
    productos,  \* the productos table: primary key -> activo
    inventarios,\* the inventarios table, all products: a set of rows
    altas,      \* the POST /api/inventarios/ requests: position, body, outcome
    informe,    \* the last report query and what it answered
    eliminado,  \* the inventarios row of db has been deleted
    borrar      \* the last attempt to delete that row and its outcome

vars == <<inv, inicial, ultima, db, db0, tabla, req, productos, inventarios, altas,
          informe, eliminado, borrar>>
varsDominio == <<inv, inicial, ultima>>
varsPersistencia == <<db, db0, tabla, req>>
varsProductos == <<productos, inventarios, altas>>
varsReportes == <<informe>>
varsAdmin == <<eliminado, borrar>>

Registro(a, r) == [cantidad_actual |-> a, cantidad_reservada |-> r]

SinDatos == [cantidad_actual |-> <<>>, cantidad_reservada |-> <<>>]

Libre == [pc |-> "libre", endpoint |-> "", tipo |-> "", cantidad |-> 0, motivo |-> "",
          datos |-> SinDatos, inst |-> Registro(0, 0), mov |-> 0, error |-> NoError,
          resp |-> <<>>]

SinLlamada(i) == [op |-> "init", cantidad |-> 0, motivo |-> "", precio |-> <<>>,
                  verificar |-> TRUE, antes |-> i, error |-> NoError,
                  tras_reservar |-> FALSE, antes_reservar |-> i]

InvVacio == [cantidad_actual |-> 0, cantidad_reservada |-> 0, movimientos |-> <<>>]

AltaLibre == [pc |-> "libre", producto |-> 0, validated_data |-> Registro(0, 0),
              error |-> NoError]

SinInforme == [consulta |-> "", error |-> NoError]

SinBorrar == [via |-> "", error |-> NoError]

\* No report asked for, the row in place, no deletion attempted.
SinGestion ==
    /\ informe = SinInforme
    /\ eliminado = FALSE
    /\ borrar = SinBorrar

\* Empty productos and inventarios tables, no request in flight.
SinProductos ==
    /\ productos = << >>
    /\ inventarios = {}
    /\ altas = [p \in Peticiones |-> AltaLibre]

\* Inventario(...): __post_init__ runs validar, so only valid objects exist.
Init ==
    /\ \E a \in 0..MaxCantidad, r \in 0..MaxCantidad :
          /\ InventarioValidar(a, r) = NoError
          /\ inv = [cantidad_actual |-> a, cantidad_reservada |-> r, movimientos |-> <<>>]
          /\ inicial = a
    /\ ultima = SinLlamada(inv)
    /\ db = Registro(0, 0) /\ db0 = db /\ tabla = <<>>
    /\ req = [p \in Peticiones |-> Libre]
    /\ SinProductos
    /\ SinGestion

\* Rows are written through Inventario.save, so a stored row is valid.
InitPersistencia ==
    /\ inv = InvVacio /\ inicial = 0 /\ ultima = SinLlamada(inv)
    /\ \E a \in 0..MaxCantidad, r \in 0..MaxCantidad :
          /\ InventarioValidar(a, r) = NoError
          /\ db = Registro(a, r)
    /\ db0 = db
    /\ tabla = <<>>
    /\ req = [p \in Peticiones |-> Libre]
    /\ SinProductos
    /\ SinGestion

-----------------------------------------------------------------------------
(* Calls on the domain entity                                              *)

\* The model follows the object while it stays within the bounds.
EnCotas(i) ==
    /\ i.cantidad_actual \in (-MaxStock)..MaxStock
    /\ Len(i.movimientos) <= MaxMovimientos

Llamada(op, cantidad, motivo, precio, verificar, r) ==
    /\ EnCotas(r.inv)
    /\ inv' = r.inv
    /\ LET par == /\ op = "liberar_reserva"
                   /\ ultima.op = "reservar" /\ ultima.error = NoError
                   /\ ultima.cantidad = cantidad
       IN ultima' = [op |-> op, cantidad |-> cantidad, motivo |-> motivo, precio |-> precio,
                     verificar |-> verificar, antes |-> inv, error |-> r.error,
                     tras_reservar |-> par,
                     antes_reservar |-> IF par THEN ultima.antes ELSE inv]
    /\ UNCHANGED <<inicial, varsPersistencia, varsProductos, varsReportes, varsAdmin>>

RegistrarEntrada ==
    \E c \in Cantidades, m \in Motivos, p \in Precios :
        Llamada("registrar_entrada", c, m, p, TRUE, registrar_entrada(inv, c, m, p))

RegistrarSalida ==
    \E c \in Cantidades, m \in Motivos, v \in BOOLEAN :
        Llamada("registrar_salida", c, m, <<>>, v, registrar_salida(inv, c, m, v))

Reservar ==
    \E c \in Cantidades :
        Llamada("reservar", c, "", <<>>, TRUE, reservar(inv, c))

LiberarReserva ==
    \E c \in Cantidades :
        Llamada("liberar_reserva", c, "", <<>>, TRUE, liberar_reserva(inv, c))

AjustarInventario ==
    \E c \in Cantidades, m \in Motivos :
        Llamada("ajustar_inventario", c, m, <<>>, TRUE, ajustar_inventario(inv, c, m))

-----------------------------------------------------------------------------
(* Requests on the persistence layer, one database statement per step      *)

\* Reasons sent with a request.
MotivosPeticion == {"", "venta"}

Termina(p, e) ==
    req' = [req EXCEPT ![p].pc = "fin", ![p].error = e]

\* Requests are numbered in the order they arrive.
Llega(p) ==
    /\ req[p].pc = "libre"
    /\ \A q \in Peticiones : q < p => req[q].pc # "libre"

\* Quantities sent to the movement serializer (0 stands for every value that
\* min_value=1 rejects) and to the ajustar endpoint (any integer).
CantidadesSerializer == 0..MaxCantidad

\* MovimientoInventarioCreateSerializer: is_valid() and save().  cantidad
\* below 1 is answered with 400; otherwise create() reads a fresh instance
\* with Inventario.objects.get and runs the method for tipo on it.  The
\* instance the view got from get_object() takes no part in the mutation.
SerializerSave(p, endpoint, tipo) ==
    /\ Llega(p)
    /\ \E c \in CantidadesSerializer, m \in MotivosPeticion :
          req' = [req EXCEPT ![p] =
                    [Libre EXCEPT !.endpoint = endpoint, !.tipo = tipo, !.cantidad = c,
                                  !.motivo = m, !.inst = db,
                                  !.pc = IF Serializer_is_valid(c) THEN "leido" ELSE "fin",
                                  !.error = IF Serializer_is_valid(c) THEN NoError
                                            ELSE "400: serializer.errors"]]
    /\ UNCHANGED <<varsDominio, varsReportes, varsAdmin, varsProductos, db, db0, tabla>>

\* views.py: InventarioViewSet.entrada
VistaEntrada(p) == SerializerSave(p, "entrada", "entrada")

\* views.py: InventarioViewSet.salida
VistaSalida(p) == SerializerSave(p, "salida", "salida")

\* The serializer saved with tipo devolucion: the branch of create that no
\* view selects.
SerializerDevolucion(p) == SerializerSave(p, "serializer", "devolucion")

\* views.py: InventarioViewSet.ajustar up to the call of ajustar_inventario:
\* the method runs on the instance get_object() returned, with int(cantidad).
VistaAjustar(p) ==
    /\ Llega(p)
    /\ \E c \in Cantidades, m \in MotivosPeticion :
          req' = [req EXCEPT ![p] =
                    [Libre EXCEPT !.endpoint = "ajustar", !.tipo = "ajuste", !.cantidad = c,
                                  !.motivo = m, !.inst = db, !.pc = "leido"]]
    /\ UNCHANGED <<varsDominio, varsReportes, varsAdmin, varsProductos, db, db0, tabla>>

\* The method the request runs on its instance.
MetodoDe(r) ==
    IF r.endpoint = "ajustar"
    THEN Modelo_ajustar_inventario(r.inst, r.cantidad, r.motivo)
    ELSE Serializer_create(r.inst, r.tipo, r.cantidad, r.motivo)

\* The 'inventario' of the response of entrada, salida and ajustar once the
\* method has returned: InventarioDetailSerializer(inventario).data, which
\* reads cantidad_disponible.  entrada and salida serialize the instance
\* get_object() gave the view, which the serializer's create() did not
\* touch; ajustar serializes the instance the method ran on.  The serializer
\* saved without a view returns the movement only.
Vista_respuesta(r, m) ==
    LET inventario == IF r.endpoint \in {"entrada", "salida"} THEN r.inst ELSE m.inst IN
    IF r.endpoint = "serializer" THEN [error |-> NoError, cantidad_actual |-> <<>>]
    ELSE IF Modelo_cantidad_disponible(inventario).error # NoError
         THEN [error |-> Modelo_cantidad_disponible(inventario).error,
               cantidad_actual |-> <<>>]
    ELSE [error |-> NoError, cantidad_actual |-> <<inventario.cantidad_actual>>]

\* The next database statement of the method the request runs.  First the
\* method up to MovimientoInventario.objects.create: its check on the
\* instance, the construction of the domain movement, the INSERT.  Then the
\* rest: the new cantidad_actual on the instance and self.save(), which
\* builds the domain Inventario and writes every field of the instance, and
\* the response of the view.
EjecutarMetodo(p) ==
    /\ req[p].pc \in {"leido", "insertado"}
    /\ req[p].endpoint \in {"entrada", "salida", "ajustar", "serializer"}
    /\ LET m == MetodoDe(req[p])
           e == Inventario_save(m.inst)
       IN IF req[p].pc = "leido"
          THEN /\ IF m.error # NoError
                  THEN /\ Termina(p, m.error)
                       /\ UNCHANGED tabla
                  ELSE /\ tabla' = Append(tabla, m.fila)
                       /\ req' = [req EXCEPT ![p].pc = "insertado",
                                             ![p].mov = Len(tabla) + 1]
               /\ UNCHANGED db
          ELSE /\ IF e # NoError
                  THEN /\ Termina(p, e)
                       /\ UNCHANGED db
                  ELSE /\ db' = m.inst
                       /\ req' = [req EXCEPT
                                    ![p].pc = "fin",
                                    ![p].error = Vista_respuesta(req[p], m).error,
                                    ![p].resp = Vista_respuesta(req[p], m).cantidad_actual]
               /\ UNCHANGED tabla
    /\ UNCHANGED <<varsDominio, varsReportes, varsAdmin, varsProductos, db0>>

\* A request of an endpoint that writes the row without a movement: it has
\* read the row and either ends with e or goes on to save the instance.
Leido(p, endpoint, cantidad, datos, e) ==
    req' = [req EXCEPT ![p] =
              [Libre EXCEPT !.endpoint = endpoint, !.cantidad = cantidad, !.datos = datos,
                            !.inst = db,
                            !.pc = IF e = NoError THEN "leido" ELSE "fin",
                            !.error = e]]

\* views.py: InventarioViewSet.reservar up to save(): get_object(), the
\* serializer, the check of Inventario.reservar.
VistaReservar(p) ==
    /\ Llega(p)
    /\ \E c \in CantidadesSerializer :
          LET v == ReservaSerializer_is_valid(db, c) IN
          Leido(p, "reservar", c, SinDatos,
                IF v # NoError THEN v ELSE Modelo_reservar(db, c).error)
    /\ UNCHANGED <<varsDominio, varsReportes, varsAdmin, varsProductos, db, db0, tabla>>

\* views.py: InventarioViewSet.liberar_reserva up to save(): get_object(),
\* "if not cantidad" (0 stands for a missing field too), int(cantidad), the
\* check of Inventario.liberar_reserva.
VistaLiberarReserva(p) ==
    /\ Llega(p)
    /\ \E c \in Cantidades :
          Leido(p, "liberar_reserva", c, SinDatos,
                IF c = 0 THEN "400: Se requiere el campo cantidad"
                ELSE Modelo_liberar_reserva(db, c).error)
    /\ UNCHANGED <<varsDominio, varsReportes, varsAdmin, varsProductos, db, db0, tabla>>

\* The bodies of a PUT/PATCH on an inventory: each quantity sent or not.
Datos == {<<>>} \cup {<<c>> : c \in Cantidades}

\* InventarioViewSet.update / partial_update (ModelViewSet) with
\* InventarioUpdateSerializer, up to save(): get_object() and is_valid().
VistaUpdate(p) ==
    /\ Llega(p)
    /\ \E a \in Datos, r \in Datos :
          LET datos == [cantidad_actual |-> a, cantidad_reservada |-> r] IN
          Leido(p, "update", 0, datos, UpdateSerializer(db, datos).error)
    /\ UNCHANGED <<varsDominio, varsReportes, varsAdmin, varsProductos, db, db0, tabla>>

\* The instance the request hands to save().
InstanciaDe(r) ==
    CASE r.endpoint = "reservar" -> Modelo_reservar(r.inst, r.cantidad).inst
      [] r.endpoint = "liberar_reserva" -> Modelo_liberar_reserva(r.inst, r.cantidad).inst
      [] OTHER -> UpdateSerializer(r.inst, r.datos).inst

\* The body of the response after save().  reservar and liberar_reserva
\* build InventarioDetailSerializer(inventario).data inside their try block:
\* it reads the property cantidad_disponible, and "except Exception" turns
\* what that raises into a 400.  update answers with the data of
\* InventarioUpdateSerializer, which holds stored fields only.
Respuesta(endpoint, inst) ==
    IF endpoint \in {"reservar", "liberar_reserva"}
    THEN Modelo_cantidad_disponible(inst).error
    ELSE NoError

\* self.save() / instance.save() of these endpoints, then the response:
\* Inventario.save builds the domain Inventario and writes every field of
\* the instance.  The view returns its 400 as an ordinary response, so the
\* row stays written whatever the response is.
GuardarInstancia(p) ==
    /\ req[p].pc = "leido"
    /\ req[p].endpoint \in {"reservar", "liberar_reserva", "update"}
    /\ LET i == InstanciaDe(req[p])
           e == Inventario_save(i)
       IN /\ Termina(p, IF e = NoError THEN Respuesta(req[p].endpoint, i) ELSE e)
          /\ db' = IF e = NoError THEN i ELSE db
    /\ UNCHANGED <<varsDominio, varsReportes, varsAdmin, varsProductos, db0, tabla>>

-----------------------------------------------------------------------------

\* The domain entity: method calls on one object.
Next ==
    \/ RegistrarEntrada
    \/ RegistrarSalida
    \/ Reservar
    \/ LiberarReserva
    \/ AjustarInventario

Spec == Init /\ [][Next]_vars

\* The persistence layer: requests against one row, interleaved statement by
\* statement.
NextPersistencia ==
    \/ \E p \in Peticiones : VistaEntrada(p)
    \/ \E p \in Peticiones : VistaSalida(p)
    \/ \E p \in Peticiones : VistaAjustar(p)
    \/ \E p \in Peticiones : SerializerDevolucion(p)
    \/ \E p \in Peticiones : EjecutarMetodo(p)

SpecPersistencia == InitPersistencia /\ [][NextPersistencia]_vars

-----------------------------------------------------------------------------

\* Products and their inventory rows.

NumProductos == 2
Nombres == {"", "cafe"}

\* productos/models.py: Producto.save: the domain Producto validates the
\* fields (the other fields of the body are taken to be valid).
Producto_save(nombre) ==
    IF Strip(nombre) = "" THEN "ValidationError: El nombre es obligatorio" ELSE NoError

\* The rows of the inventarios table that belong to product k.
FilasDe(filas, k) == {f \in filas : f.producto = k}

\* inventario/models.py: producto = OneToOneField(...): the unique index on
\* inventarios.producto_id refuses a second row of a product.
Unico_laxo(filas, k) == TRUE
Unico(filas, k) == FilasDe(filas, k) = {}

\* Inventario.objects.create(producto=k, ...): Inventario.save builds the
\* domain Inventario, then the INSERT, which the unique index can refuse.
\* The result is the exception and the table afterwards.
Inventario_create(filas, k, a, r) ==
    LET e == Inventario_save(Registro(a, r)) IN
    IF e # NoError THEN [error |-> e, filas |-> filas]
    ELSE IF ~Unico(filas, k)
         THEN [error |-> "IntegrityError: UNIQUE constraint failed: inventarios.producto_id",
               filas |-> filas]
    ELSE [error |-> NoError,
          filas |-> filas \cup {[producto |-> k, cantidad_actual |-> a,
                                  cantidad_reservada |-> r]}]

\* productos/signals.py: crear_inventario_automatico, the post_save receiver
\* of Producto: the table after it has run for product k.
crear_inventario_automatico(filas, k, created) ==
    IF created /\ FilasDe(filas, k) = {}      \* not hasattr(instance, 'inventario')
    THEN Inventario_create(filas, k, 0, 0).filas
    ELSE filas

\* POST /api/productos/: Producto.save() inserts the product under the next
\* primary key and sends post_save with created=True; the receiver runs
\* inside that call of save().
CrearProducto ==
    /\ Cardinality(DOMAIN productos) < NumProductos
    /\ \E nombre \in Nombres :
          /\ Producto_save(nombre) = NoError
          /\ LET k == Cardinality(DOMAIN productos) + 1 IN
                /\ productos' = [j \in (DOMAIN productos) \cup {k} |->
                                    IF j = k THEN TRUE ELSE productos[j]]
                /\ inventarios' = crear_inventario_automatico(inventarios, k, TRUE)
    /\ UNCHANGED <<varsDominio, varsReportes, varsAdmin, varsPersistencia, altas>>

\* productos/views.py: ProductoViewSet.destroy (soft delete) and activar:
\* save() of an existing product sends post_save with created=False.
GuardarProducto(k) ==
    /\ k \in DOMAIN productos
    /\ \E activo \in BOOLEAN :
          /\ activo # productos[k]
          /\ productos' = [productos EXCEPT ![k] = activo]
    /\ inventarios' = crear_inventario_automatico(inventarios, k, FALSE)
    /\ UNCHANGED <<varsDominio, varsReportes, varsAdmin, varsPersistencia, altas>>

\* inventario/serializers.py: InventarioCreateSerializer: the producto field
\* (the primary key of an existing product), validate_producto,
\* validate_cantidad_actual, validate_cantidad_reservada, validate.
CreateSerializer_is_valid(filas, prods, k, datos) ==
    LET a == Dato(datos.cantidad_actual, 0)
        r == Dato(datos.cantidad_reservada, 0)
    IN IF k \notin DOMAIN prods THEN "400: serializer.errors"
       ELSE IF FilasDe(filas, k) # {} THEN "400: Este producto ya tiene un inventario registrado"
       ELSE IF a < 0 \/ r < 0 \/ r > a THEN "400: serializer.errors"
       ELSE NoError

\* POST /api/inventarios/ up to serializer.save(): is_valid() reads the
\* table.  The body names a product and sends cantidad_actual or not;
\* cantidad_reservada is left to the model's default.  The request keeps
\* its validated data until the INSERT.
VistaCreate(p) ==
    /\ altas[p].pc = "libre"
    /\ \A q \in Peticiones : q < p => altas[q].pc # "libre"
    /\ \E k \in 1..NumProductos, a \in Datos :
          LET datos == [cantidad_actual |-> a, cantidad_reservada |-> <<>>]
              e     == CreateSerializer_is_valid(inventarios, productos, k, datos)
          IN altas' = [altas EXCEPT ![p] =
                         IF e = NoError
                         THEN [AltaLibre EXCEPT !.pc = "valido", !.producto = k,
                                 !.validated_data =
                                     Registro(Dato(datos.cantidad_actual, 0),
                                              Dato(datos.cantidad_reservada, 0))]
                         ELSE [AltaLibre EXCEPT !.pc = "fin", !.producto = k, !.error = e]]
    /\ UNCHANGED <<varsDominio, varsReportes, varsAdmin, varsPersistencia, productos, inventarios>>

\* serializer.save() of POST /api/inventarios/: Inventario.objects.create
\* with the validated data.
InsertarInventario(p) ==
    /\ altas[p].pc = "valido"
    /\ LET c == Inventario_create(inventarios, altas[p].producto,
                                  altas[p].validated_data.cantidad_actual,
                                  altas[p].validated_data.cantidad_reservada)
       IN /\ inventarios' = c.filas
          /\ altas' = [altas EXCEPT ![p] =
                         [AltaLibre EXCEPT !.pc = "fin", !.producto = altas[p].producto,
                                           !.error = c.error]]
    /\ UNCHANGED <<varsDominio, varsReportes, varsAdmin, varsPersistencia, productos>>

\* DELETE /api/inventarios/{id}/ (ModelViewSet.destroy) of a row that no
\* movement references.
EliminarInventario ==
    /\ \E f \in inventarios : inventarios' = inventarios \ {f}
    /\ UNCHANGED <<varsDominio, varsReportes, varsAdmin, varsPersistencia, productos, altas>>

NextProductos ==
    \/ CrearProducto
    \/ \E k \in 1..NumProductos : GuardarProducto(k)
    \/ \E p \in Peticiones : VistaCreate(p)
    \/ \E p \in Peticiones : InsertarInventario(p)
    \/ EliminarInventario

InitProductos ==
    /\ inv = InvVacio /\ inicial = 0 /\ ultima = SinLlamada(inv)
    /\ db = Registro(0, 0) /\ db0 = db /\ tabla = <<>>
    /\ req = [p \in Peticiones |-> Libre]
    /\ SinProductos
    /\ SinGestion

SpecProductos == InitProductos /\ [][NextProductos]_vars

-----------------------------------------------------------------------------

\* The report queries, each applied to a table of inventory rows joined with
\* the stock_minimo of their product (select_related('producto')).

\* Stored rows: written through Inventario.save, at most one per product,
\* stock_minimo >= 0 by Producto's validation.
FilasValidas ==
    {f \in [producto : 1..NumProductos, cantidad_actual : 0..MaxCantidad,
             cantidad_reservada : 0..MaxCantidad, stock_minimo : 0..MaxCantidad] :
        InventarioValidar(f.cantidad_actual, f.cantidad_reservada) = NoError}

Tablas ==
    {t \in SUBSET FilasValidas : \A k \in 1..NumProductos : Cardinality(FilasDe(t, k)) <= 1}

\* Sum('cantidad_actual') and Sum('cantidad_reservada') over a queryset.
RECURSIVE Sum(_, _)
Sum(filas, campo) ==
    IF filas = {} THEN 0
    ELSE LET f == CHOOSE g \in filas : TRUE IN
         (IF campo = "cantidad_actual" THEN f.cantidad_actual ELSE f.cantidad_reservada)
         + Sum(filas \ {f}, campo)

\* The exception of "[inv for inv in queryset if inv.cantidad_disponible <=
\* ...]": the property is read on every row, and what it raises leaves the
\* view, so the request has no answer but the error.
ErrorDisponible(filas) ==
    IF \E f \in filas : Modelo_cantidad_disponible(f).error # NoError
    THEN Modelo_cantidad_disponible(CHOOSE f \in filas :
                                       Modelo_cantidad_disponible(f).error # NoError).error
    ELSE NoError

\* views.py: the comprehension of bajo_stock and of reporte_stock.
Vista_bajo_stock(filas) ==
    {f \in filas : Modelo_cantidad_disponible(f).valor <= f.stock_minimo}

\* views.py: the comprehension of sin_stock and of reporte_stock.
Vista_sin_stock(filas) ==
    {f \in filas : Modelo_cantidad_disponible(f).valor <= 0}

\* ia/views.py: _generar_contexto_sistema:
\* filter(cantidad_actual__lte=F('producto__stock_minimo')).
Contexto_bajo_stock(filas) ==
    {f \in filas : f.cantidad_actual <= f.stock_minimo}

\* admin.py: InventarioAdmin.reporte_stock_bajo: the comprehension over the
\* selected rows.
Admin_bajo_stock(filas) ==
    {f \in filas : f.cantidad_actual <= f.stock_minimo}

\* GET /api/inventarios/bajo-stock/
BajoStock ==
    /\ informe' = IF ErrorDisponible(inventarios) # NoError
                  THEN [consulta |-> "bajo_stock", error |-> ErrorDisponible(inventarios)]
                  ELSE [consulta |-> "bajo_stock", error |-> NoError,
                        count |-> Cardinality(Vista_bajo_stock(inventarios)),
                        results |-> Vista_bajo_stock(inventarios)]
    /\ UNCHANGED <<varsDominio, varsPersistencia, varsProductos, varsAdmin>>

\* GET /api/inventarios/sin-stock/
SinStock ==
    /\ informe' = IF ErrorDisponible(inventarios) # NoError
                  THEN [consulta |-> "sin_stock", error |-> ErrorDisponible(inventarios)]
                  ELSE [consulta |-> "sin_stock", error |-> NoError,
                        count |-> Cardinality(Vista_sin_stock(inventarios)),
                        results |-> Vista_sin_stock(inventarios)]
    /\ UNCHANGED <<varsDominio, varsPersistencia, varsProductos, varsAdmin>>

\* GET /api/inventarios/reporte-stock/
ReporteStock ==
    /\ informe' = IF ErrorDisponible(inventarios) # NoError
                  THEN [consulta |-> "reporte_stock", error |-> ErrorDisponible(inventarios)]
                  ELSE [consulta |-> "reporte_stock", error |-> NoError,
                        total_productos |-> Cardinality(inventarios),
                        total_stock_actual |-> Sum(inventarios, "cantidad_actual"),
                        total_stock_reservado |-> Sum(inventarios, "cantidad_reservada"),
                        productos_bajo_stock |-> Cardinality(Vista_bajo_stock(inventarios)),
                        productos_sin_stock |-> Cardinality(Vista_sin_stock(inventarios))]
    /\ UNCHANGED <<varsDominio, varsPersistencia, varsProductos, varsAdmin>>

\* ia/views.py: _generar_contexto_sistema: the figures put in the context.
ContextoSistema ==
    /\ informe' = [consulta |-> "contexto", error |-> NoError,
                   bajo_stock |-> Cardinality(Contexto_bajo_stock(inventarios)),
                   total_stock |-> Sum(inventarios, "cantidad_actual")]
    /\ UNCHANGED <<varsDominio, varsPersistencia, varsProductos, varsAdmin>>

\* admin.py: the action reporte_stock_bajo on a selection of rows.
ReporteStockBajo ==
    /\ \E sel \in SUBSET inventarios :
          informe' = [consulta |-> "admin", error |-> NoError, queryset |-> sel,
                      bajo_stock |-> Admin_bajo_stock(sel)]
    /\ UNCHANGED <<varsDominio, varsPersistencia, varsProductos, varsAdmin>>

NextReportes ==
    \/ BajoStock
    \/ SinStock
    \/ ReporteStock
    \/ ContextoSistema
    \/ ReporteStockBajo

InitReportes ==
    /\ inv = InvVacio /\ inicial = 0 /\ ultima = SinLlamada(inv)
    /\ db = Registro(0, 0) /\ db0 = db /\ tabla = <<>>
    /\ req = [p \in Peticiones |-> Libre]
    /\ productos = [k \in 1..NumProductos |-> TRUE]
    /\ inventarios \in Tablas
    /\ altas = [p \in Peticiones |-> AltaLibre]
    /\ SinGestion

SpecReportes == InitReportes /\ [][NextReportes]_vars

-----------------------------------------------------------------------------

\* Deleting the inventory row, and movements added through the admin.  Every
\* row of tabla references the row db.

\* A foreign key that lets the referenced row go.
PROTECT_sin_proteger(movimientos) == FALSE

\* models.py: MovimientoInventario.inventario, on_delete=PROTECT: deleting an
\* Inventario that a movement references raises ProtectedError.
PROTECT(movimientos) == movimientos # <<>>

\* admin.py: InventarioAdmin.has_delete_permission(request, obj): False for
\* an object with movements; True otherwise and when called without object,
\* as the changelist does for the delete_selected action.
Inventario_has_delete_permission(conObjeto, movimientos) ==
    ~(conObjeto /\ movimientos # <<>>)

\* Inventario.delete() as the three routes reach it: the row is removed
\* unless PROTECT objects.
Inventario_delete(via, sinPermiso) ==
    /\ borrar' = [via |-> via,
                  error |-> IF eliminado THEN "404"
                            ELSE IF sinPermiso THEN "403: PermissionDenied"
                            ELSE IF PROTECT(tabla) THEN "ProtectedError"
                            ELSE NoError]
    /\ eliminado' = (eliminado \/ borrar'.error = NoError)
    /\ UNCHANGED <<varsDominio, varsPersistencia, varsProductos, varsReportes>>

\* views.py: InventarioViewSet is a ModelViewSet: DELETE
\* /api/inventarios/{id}/ calls instance.delete().
VistaDestroy == Inventario_delete("api", FALSE)

\* The delete view of InventarioAdmin: has_delete_permission(request, obj)
\* is asked first.
AdminDelete ==
    Inventario_delete("admin", ~Inventario_has_delete_permission(TRUE, tabla))

\* The delete_selected action of InventarioAdmin: the permission is asked
\* without object, the queryset is deleted.
AdminDeleteSelected ==
    Inventario_delete("admin_accion", ~Inventario_has_delete_permission(FALSE, tabla))

\* The add form of MovimientoInventarioAdmin, whose tipo offers entrada and
\* salida (get_form): the form is valid and obj.inventario holds the row as
\* read.
AdminAdd(p) ==
    /\ Llega(p)
    /\ ~eliminado
    /\ \E t \in {"entrada", "salida"}, c \in CantidadesSerializer, m \in MotivosPeticion :
          req' = [req EXCEPT ![p] =
                    [Libre EXCEPT !.endpoint = "admin", !.tipo = t, !.cantidad = c,
                                  !.motivo = m, !.inst = db, !.pc = "leido"]]
    /\ UNCHANGED <<varsDominio, varsReportes, varsAdmin, varsProductos, db, db0, tabla>>

\* tabla without its row k, and the position a row at j has afterwards.
SinFila(t, k) == [j \in 1..(Len(t) - 1) |-> IF j < k THEN t[j] ELSE t[j + 1]]

\* admin.py: MovimientoInventarioAdmin.save_model with change = False, one
\* database statement per step.  First super().save_model: obj.save(), which
\* builds the domain movement and inserts the row.  Then the branch for
\* obj.tipo on obj.inventario: entrada adds and saves; salida subtracts and
\* saves when cantidad_actual >= cantidad, and deletes obj otherwise.  The
\* request ends in the state save_model leaves when it returns or raises.
AdminSaveModel(p) ==
    /\ req[p].pc \in {"leido", "insertado"}
    /\ req[p].endpoint = "admin"
    /\ LET r == req[p]
           e == MovimientoInventario_save(r.cantidad, r.motivo)
           suficiente == r.inst.cantidad_actual >= r.cantidad
           inventario ==
               [r.inst EXCEPT !.cantidad_actual =
                   IF r.tipo = "entrada" THEN @ + r.cantidad ELSE @ - r.cantidad]
       IN IF r.pc = "leido"
          THEN /\ IF e # NoError
                  THEN /\ Termina(p, e)
                       /\ UNCHANGED tabla
                  ELSE IF eliminado
                  THEN /\ Termina(p, "IntegrityError")
                       /\ UNCHANGED tabla
                  ELSE /\ tabla' = Append(tabla, Fila(r.tipo, r.cantidad, r.motivo))
                       /\ req' = [req EXCEPT ![p].pc = "insertado",
                                             ![p].mov = Len(tabla) + 1]
               /\ UNCHANGED db
          ELSE IF r.tipo = "salida" /\ ~suficiente
          THEN /\ tabla' = SinFila(tabla, r.mov)
               /\ req' = [q \in Peticiones |->
                            IF q = p
                            THEN [r EXCEPT !.pc = "fin", !.mov = 0,
                                           !.error = "Stock insuficiente"]
                            ELSE [req[q] EXCEPT !.mov = IF @ > r.mov THEN @ - 1 ELSE @]]
               /\ UNCHANGED db
          ELSE /\ IF Inventario_save(inventario) # NoError
                  THEN /\ Termina(p, Inventario_save(inventario))
                       /\ UNCHANGED db
                  ELSE /\ db' = inventario
                       /\ Termina(p, NoError)
               /\ UNCHANGED tabla
    /\ UNCHANGED <<varsDominio, varsReportes, varsAdmin, varsProductos, db0>>

NextAdmin ==
    \/ VistaDestroy
    \/ AdminDelete
    \/ AdminDeleteSelected
    \/ \E p \in Peticiones : AdminAdd(p)
    \/ \E p \in Peticiones : AdminSaveModel(p)

\* Movement rows the table holds before the first request.
MovimientosPrevios == {<<>>, <<Fila("entrada", 1, "venta")>>}

\* A stored inventory row, valid as Inventario.save leaves it.  The table of
\* movements may hold a row already: rows come into it without
\* MovimientoInventario.save being called, by loaddata or bulk_create.
InitAdmin ==
    /\ inv = InvVacio /\ inicial = 0 /\ ultima = SinLlamada(inv)
    /\ \E a \in 0..MaxCantidad, r \in 0..MaxCantidad :
          /\ InventarioValidar(a, r) = NoError
          /\ db = Registro(a, r)
    /\ db0 = db
    /\ tabla \in MovimientosPrevios
    /\ req = [p \in Peticiones |-> Libre]
    /\ SinProductos
    /\ SinGestion

SpecAdmin == InitAdmin /\ [][NextAdmin]_vars

-----------------------------------------------------------------------------

\* Every endpoint of InventarioViewSet that writes an existing row.
NextApi ==
    \/ NextPersistencia
    \/ \E p \in Peticiones : VistaReservar(p)
    \/ \E p \in Peticiones : VistaLiberarReserva(p)
    \/ \E p \in Peticiones : VistaUpdate(p)
    \/ \E p \in Peticiones : GuardarInstancia(p)

SpecApi == InitPersistencia /\ [][NextApi]_vars

-----------------------------------------------------------------------------
(* Properties                                                              *)

Exito == ultima.error = NoError
Fallo == ultima.error # NoError

\* The movement a successful call appended: the ledger before, plus one.
AnadeUno(tipo, cantidad) ==
    /\ Len(inv.movimientos) = Len(ultima.antes.movimientos) + 1
    /\ SubSeq(inv.movimientos, 1, Len(ultima.antes.movimientos)) = ultima.antes.movimientos
    /\ inv.movimientos[Len(inv.movimientos)].tipo = tipo
    /\ inv.movimientos[Len(inv.movimientos)].cantidad = cantidad

Terminada(p) == req[p].pc = "fin"
Exitosa(p) == req[p].pc = "fin" /\ req[p].error = NoError
Exitosas == {p \in Peticiones : Exitosa(p)}
Quieto == \A p \in Peticiones : req[p].pc \in {"libre", "fin"}

\* C1: on the domain entity, after any sequence of entries, exits (checked or
\* forced), reservations, releases and adjustments, cantidad_actual >= 0,
\* cantidad_reservada >= 0 and cantidad_reservada <= cantidad_actual, so
\* cantidad_disponible is never negative.
C1_InvarianteStock ==
    /\ inv.cantidad_actual >= 0
    /\ inv.cantidad_reservada >= 0
    /\ inv.cantidad_reservada <= inv.cantidad_actual
    /\ cantidad_disponible(inv) >= 0

\* Two exit requests, alone on the row, have both run to their end, and
\* together they asked for more than was available when they started.
DosSalidas(p, q) ==
    /\ p # q
    /\ Terminada(p) /\ req[p].tipo = "salida"
    /\ Terminada(q) /\ req[q].tipo = "salida"
    /\ \A r \in Peticiones \ {p, q} : req[r].pc = "libre"
    /\ req[p].cantidad + req[q].cantidad > cantidad_disponible(db0)

\* C2: of two exit requests on the same row that run together, and whose
\* combined quantity exceeds what was available, at most one succeeds.
C2_UnaSolaSalida ==
    \A p, q \in Peticiones :
        DosSalidas(p, q) => ~(Exitosa(p) /\ Exitosa(q))

\* Two exits that each ask for no more than was available, and together for
\* more.
C2_Testigo ==
    \E p, q \in Peticiones :
        /\ DosSalidas(p, q)
        /\ req[p].cantidad \in 1..cantidad_disponible(db0)
        /\ req[q].cantidad \in 1..cantidad_disponible(db0)
        /\ req[p].motivo # "" /\ req[q].motivo # ""

\* One request run alone on the row d: read, check, INSERT, save.
SerieUna(d, r) ==
    LET m == MetodoDe([r EXCEPT !.inst = d]) IN
    IF m.error = NoError /\ Inventario_save(m.inst) = NoError
    THEN [ok |-> TRUE, db |-> m.inst, fila |-> m.fila]
    ELSE [ok |-> FALSE, db |-> d, fila |-> m.fila]

\* The row after the first k requests of orden have run one after the other.
RECURSIVE SerieDb(_, _)
SerieDb(orden, k) ==
    IF k = 0 THEN db0 ELSE SerieUna(SerieDb(orden, k - 1), req[orden[k]]).db

Ordenes(S) ==
    {o \in [1..Cardinality(S) -> S] : \A i, j \in 1..Cardinality(S) : o[i] = o[j] => i = j}

\* C3: once no request is in flight, cantidad_actual and the movements of the
\* successful requests are what running them one after the other, in some
\* order, produces: no update is lost.
C3_Serializable ==
    Quieto =>
        \E orden \in Ordenes(Exitosas) :
            /\ \A k \in 1..Cardinality(Exitosas) :
                  LET u == SerieUna(SerieDb(orden, k - 1), req[orden[k]]) IN
                  /\ u.ok
                  /\ u.fila = tabla[req[orden[k]].mov]
            /\ db.cantidad_actual = SerieDb(orden, Cardinality(Exitosas)).cantidad_actual

\* An entry and an exit or adjustment, each with a quantity and a reason the
\* serializer and the domain accept, have both run to their end.
C3_Testigo ==
    /\ Quieto
    /\ \E p, q \in Peticiones :
          /\ Terminada(p) /\ req[p].tipo = "entrada"
          /\ Terminada(q) /\ req[q].tipo \in {"salida", "ajuste"}
          /\ req[p].cantidad >= 1 /\ req[q].cantidad >= 1
          /\ req[p].motivo # "" /\ req[q].motivo # ""

\* C4: the movement row and the update of the stock row of one operation are
\* stored together or not at all: a finished request has its movement in the
\* table exactly when its update was written, and the table holds nothing
\* but the movements of requests.
C4_MovimientoYActualizacion ==
    /\ \A p \in Peticiones :
          Terminada(p) => (req[p].mov # 0 <=> req[p].error = NoError)
    /\ Len(tabla) = Cardinality({p \in Peticiones : req[p].mov # 0})

\* An adjustment to a negative quantity, which save() refuses, has run to its
\* end.
C4_Testigo ==
    \E p \in Peticiones :
        /\ Terminada(p) /\ req[p].endpoint = "ajustar"
        /\ req[p].cantidad < 0 /\ req[p].motivo # ""

\* C5: a call on the domain entity that fails leaves cantidad_actual,
\* cantidad_reservada and the movement list as they were before the call.
C5_FalloSinEfecto ==
    Fallo => inv = ultima.antes

\* A failure that comes after the argument checks, when the movement is
\* built: an entry of a valid quantity with a blank reason, on an entity
\* that already has a ledger.
C5_Testigo ==
    /\ Fallo
    /\ ultima.op = "registrar_entrada"
    /\ ultima.cantidad > 0
    /\ ultima.error = "ValueError: El motivo es obligatorio"
    /\ Len(inv.movimientos) > 0

TipoDe(op) ==
    CASE op = "registrar_entrada" -> "entrada"
      [] op = "registrar_salida" -> "salida"
      [] OTHER -> "ajuste"

\* C6: every successful entry, exit or adjustment on the entity has appended
\* exactly one movement, of the operation's tipo and quantity (for an
\* adjustment, the distance from the quantity it found to the new one), and
\* the movements before it are as they were.
C6_UnMovimientoPorOperacion ==
    (Exito /\ ultima.op \in {"registrar_entrada", "registrar_salida", "ajustar_inventario"})
    => AnadeUno(TipoDe(ultima.op),
                IF ultima.op = "ajustar_inventario"
                THEN Abs(ultima.cantidad - ultima.antes.cantidad_actual)
                ELSE ultima.cantidad)

\* An adjustment has succeeded on an entity that already had a movement, to
\* a quantity that differs from the distance it moved.
C6_Testigo ==
    /\ Exito /\ ultima.op = "ajustar_inventario"
    /\ Len(ultima.antes.movimientos) > 0
    /\ ultima.cantidad # Abs(ultima.cantidad - ultima.antes.cantidad_actual)

\* The signed effect of a movement on cantidad_actual; for an adjustment the
\* sign is that of the step from the before value to the after value.
Efecto(m) ==
    CASE m.tipo = "entrada" -> m.cantidad
      [] m.tipo = "salida" -> -m.cantidad
      [] m.tipo = "ajuste" -> IF m.ajuste_a >= m.ajuste_de THEN m.cantidad ELSE -m.cantidad
      [] OTHER -> m.cantidad

RECURSIVE SumaLibro(_)
SumaLibro(ms) == IF ms = <<>> THEN 0 ELSE Efecto(Head(ms)) + SumaLibro(Tail(ms))

\* C7: an entity constructed with cantidad_actual = 0 and changed only by
\* calls made one after the other holds the ENTRADA quantities minus the
\* SALIDA quantities plus the signed AJUSTE deltas of its ledger.
C7_LibroCuadra ==
    inicial = 0 => inv.cantidad_actual = SumaLibro(inv.movimientos)

\* A ledger with an entry followed by an adjustment downwards.
C7_Testigo ==
    /\ inicial = 0
    /\ Len(inv.movimientos) = 2
    /\ inv.movimientos[1].tipo = "entrada"
    /\ inv.movimientos[2].tipo = "ajuste"
    /\ inv.movimientos[2].ajuste_a < inv.movimientos[2].ajuste_de

\* C8: an exit with the availability check succeeds exactly when 0 < qty <=
\* cantidad_disponible of the row it read; with qty = disponible + 1 it fails
\* for lack of stock; on success the instance it saves has cantidad_actual
\* lower by qty and one SALIDA movement of qty is stored.
C8_SalidaExactamente ==
    \A p \in Peticiones :
        (Terminada(p) /\ req[p].tipo = "salida") =>
            /\ Exitosa(p) <=> (/\ 0 < req[p].cantidad
                                /\ req[p].cantidad <= cantidad_disponible(req[p].inst))
            /\ (req[p].cantidad = cantidad_disponible(req[p].inst) + 1
                   /\ req[p].cantidad > 0)
                  => req[p].error = "ValidationError: Stock insuficiente"
            /\ Exitosa(p) =>
                  /\ req[p].mov \in 1..Len(tabla)
                  /\ tabla[req[p].mov] = Fila("salida", req[p].cantidad, req[p].motivo)

\* C9: a forced exit never leaves cantidad_actual below 0: one that asks for
\* more than cantidad_actual fails and changes nothing.
C9_SalidaForzadaConPiso ==
    (ultima.op = "registrar_salida" /\ ~ultima.verificar) =>
        /\ inv.cantidad_actual >= 0
        /\ ultima.cantidad > ultima.antes.cantidad_actual
              => (Fallo /\ inv = ultima.antes)

\* C10: an adjustment to less than cantidad_reservada is rejected and changes
\* nothing, or it lowers cantidad_reservada to the new quantity; the state it
\* leaves never has cantidad_reservada > cantidad_actual.
C10_AjusteBajoReserva ==
    (ultima.op = "ajustar_inventario"
        /\ ultima.cantidad < ultima.antes.cantidad_reservada)
    => /\ \/ Fallo /\ inv = ultima.antes
          \/ Exito /\ inv.cantidad_reservada = ultima.cantidad
       /\ inv.cantidad_reservada <= inv.cantidad_actual

\* C11: an adjustment to the quantity the entity already has creates no
\* movement (none of cantidad 0 in particular) and leaves cantidad_actual and
\* cantidad_reservada as they were.
C11_AjusteSinCambio ==
    (ultima.op = "ajustar_inventario" /\ ultima.cantidad = ultima.antes.cantidad_actual)
    => /\ inv = ultima.antes
       /\ \A k \in 1..Len(inv.movimientos) : inv.movimientos[k].cantidad # 0

\* An adjustment to the same, non-negative quantity was refused when its
\* movement of cantidad 0 was built.
C11_Testigo ==
    /\ ultima.op = "ajustar_inventario"
    /\ ultima.cantidad = ultima.antes.cantidad_actual
    /\ ultima.cantidad >= 0
    /\ ultima.error = "ValueError: La cantidad debe ser mayor a 0"

\* C15: a release that follows at once a successful reservation of the same
\* quantity succeeds and gives back the entity as it was before the
\* reservation: cantidad_reservada, cantidad_actual and the movement list.
C15_ReservarYLiberar ==
    ultima.tras_reservar =>
        /\ Exito
        /\ inv.cantidad_reservada = ultima.antes_reservar.cantidad_reservada
        /\ inv.cantidad_actual = ultima.antes_reservar.cantidad_actual
        /\ inv.movimientos = ultima.antes_reservar.movimientos

\* A reservation of everything available, on an entity with a movement, has
\* been released again.
C15_Testigo ==
    /\ ultima.tras_reservar
    /\ ultima.cantidad = cantidad_disponible(ultima.antes_reservar)
    /\ ultima.antes_reservar.cantidad_reservada = 0
    /\ Len(inv.movimientos) > 0

\* C17: every movement of the ledger has cantidad > 0.
C17_CantidadPositiva ==
    \A k \in 1..Len(inv.movimientos) : inv.movimientos[k].cantidad > 0

\* A ledger with an exit and an adjustment, after a call that asked for a
\* movement of a quantity that is not positive.
C17_Testigo ==
    /\ Len(inv.movimientos) >= 2
    /\ \E j, k \in 1..Len(inv.movimientos) :
          inv.movimientos[j].tipo = "salida" /\ inv.movimientos[k].tipo = "ajuste"
    /\ Fallo
    /\ \/ ultima.op \in {"registrar_entrada", "registrar_salida"} /\ ultima.cantidad <= 0
       \/ ultima.op = "ajustar_inventario" /\ ultima.cantidad = ultima.antes.cantidad_actual

C12_AjusteExacto ==
    \A p \in Peticiones :
        (Terminada(p) /\ req[p].endpoint = "ajustar") =>
            /\ req[p].cantidad < 0 => (~Exitosa(p) /\ req[p].mov = 0)
            /\ (req[p].cantidad >= 0 /\ req[p].cantidad # req[p].inst.cantidad_actual)
                  => /\ Exitosa(p)
                     /\ req[p].mov \in 1..Len(tabla)
                     /\ tabla[req[p].mov] =
                           Fila("ajuste", Abs(req[p].cantidad - req[p].inst.cantidad_actual),
                                req[p].motivo)

\* C13: a reservation request succeeds exactly when 0 < qty <=
\* cantidad_disponible of the row it read, and stores no movement.
C13_ReservaExacta ==
    \A p \in Peticiones :
        (Terminada(p) /\ req[p].endpoint = "reservar") =>
            /\ Exitosa(p) <=> (/\ 0 < req[p].cantidad
                                /\ req[p].cantidad <= cantidad_disponible(req[p].inst))
            /\ req[p].mov = 0

\* C14: the step that ends a release request of qty against a row writes
\* cantidad_reservada - qty and reports success when 0 < qty <=
\* cantidad_reservada of the row it read, and otherwise reports a failure and
\* leaves the row as it was.
C14_LiberarExacto ==
    [][\A p \in Peticiones :
          (/\ req[p].pc # "fin" /\ req'[p].pc = "fin"
           /\ req'[p].endpoint = "liberar_reserva") =>
              IF /\ 0 < req'[p].cantidad
                 /\ req'[p].cantidad <= req'[p].inst.cantidad_reservada
              THEN /\ req'[p].error = NoError
                   /\ db' = [req'[p].inst EXCEPT !.cantidad_reservada = @ - req'[p].cantidad]
              ELSE /\ req'[p].error # NoError
                   /\ db' = db]_vars

\* C16: an entry request fails for qty <= 0 and succeeds for every qty > 0,
\* storing one ENTRADA movement of qty.
C16_EntradaSiempre ==
    \A p \in Peticiones :
        (Terminada(p) /\ req[p].tipo = "entrada") =>
            /\ req[p].cantidad <= 0 => ~Exitosa(p)
            /\ req[p].cantidad > 0 =>
                  /\ Exitosa(p)
                  /\ req[p].mov \in 1..Len(tabla)
                  /\ tabla[req[p].mov] = Fila("entrada", req[p].cantidad, req[p].motivo)

\* C19: cantidad_actual of the row changes only in the step that ends a
\* request which stored a movement.
C19_SoloConMovimiento ==
    [][db'.cantidad_actual # db.cantidad_actual =>
          \E p \in Peticiones :
              /\ req[p].pc # "fin" /\ req'[p].pc = "fin"
              /\ req'[p].mov # 0]_vars

C25_ReservaRespetada ==
    (/\ ultima.op \in {"registrar_entrada", "registrar_salida", "reservar", "liberar_reserva"}
     /\ ultima.verificar
     /\ 0 <= ultima.antes.cantidad_reservada
     /\ ultima.antes.cantidad_reservada <= ultima.antes.cantidad_actual)
    => /\ 0 <= inv.cantidad_reservada
       /\ inv.cantidad_reservada <= inv.cantidad_actual

\* A checked exit has succeeded on an object that holds a reservation.
C25_Testigo ==
    /\ ultima.op = "registrar_salida" /\ ultima.verificar /\ Exito
    /\ ultima.antes.cantidad_reservada > 0
    /\ ultima.antes.cantidad_reservada <= ultima.antes.cantidad_actual
    /\ inv.cantidad_actual = inv.cantidad_reservada

\* The persistence method a request names, run alone on the instance the
\* request read: the exception it raises (its own, the INSERT's or save()'s)
\* and the row it writes.
MetodoModelo(r) ==
    LET m == CASE r.endpoint = "reservar" -> Modelo_reservar(r.inst, r.cantidad)
               [] r.endpoint = "liberar_reserva" -> Modelo_liberar_reserva(r.inst, r.cantidad)
               [] OTHER -> MetodoDe(r)
    IN [error |-> IF m.error # NoError THEN m.error ELSE Inventario_save(m.inst),
        inst  |-> m.inst]

\* The domain method of the same name, called with the same arguments on an
\* object with the same quantities.
MetodoDominio(r) ==
    LET i == [cantidad_actual |-> r.inst.cantidad_actual,
              cantidad_reservada |-> r.inst.cantidad_reservada, movimientos |-> <<>>]
    IN CASE r.endpoint = "entrada" -> registrar_entrada(i, r.cantidad, r.motivo, <<>>)
         [] r.endpoint = "salida" -> registrar_salida(i, r.cantidad, r.motivo, TRUE)
         [] r.endpoint = "ajustar" -> ajustar_inventario(i, r.cantidad, r.motivo)
         [] r.endpoint = "reservar" -> reservar(i, r.cantidad)
         [] OTHER -> liberar_reserva(i, r.cantidad)

\* C26: on the row and with the arguments of a request, the persistence
\* method succeeds exactly when the domain method of the same name does, and
\* then both leave the same cantidad_actual and cantidad_reservada.
C26_Refinamiento ==
    \A p \in Peticiones :
        (/\ req[p].pc # "libre"
         /\ req[p].endpoint \in {"entrada", "salida", "ajustar", "reservar", "liberar_reserva"})
        => LET m == MetodoModelo(req[p])
               d == MetodoDominio(req[p])
           IN /\ m.error = NoError <=> d.error = NoError
              /\ m.error = NoError =>
                    /\ m.inst.cantidad_actual = d.inv.cantidad_actual
                    /\ m.inst.cantidad_reservada = d.inv.cantidad_reservada

\* C27: the row a liberar_reserva request writes has no more reserved than
\* the row it read, and the row a reservar request writes has no less.
C27_ReservaMonotona ==
    [][\A p \in Peticiones :
          (req[p].pc = "leido" /\ req'[p].pc = "fin" /\ db' # db) =>
              /\ req[p].endpoint = "liberar_reserva" =>
                    db'.cantidad_reservada <= req[p].inst.cantidad_reservada
              /\ req[p].endpoint = "reservar" =>
                    db'.cantidad_reservada >= req[p].inst.cantidad_reservada]_vars

\* C28: a step of an entry, exit, adjustment or return request leaves the
\* stored cantidad_reservada as it is, and a step of a reservar or
\* liberar_reserva request leaves the stored cantidad_actual and the
\* movement table as they are.
C28_Marco ==
    [][\A p \in Peticiones :
          (req'[p] # req[p] /\ req[p].pc # "libre") =>
              /\ req[p].endpoint \in {"entrada", "salida", "ajustar", "serializer"} =>
                    db'.cantidad_reservada = db.cantidad_reservada
              /\ req[p].endpoint \in {"reservar", "liberar_reserva"} =>
                    /\ db'.cantidad_actual = db.cantidad_actual
                    /\ tabla' = tabla]_vars

\* The rows that are low on stock: available quantity, cantidad_actual minus
\* cantidad_reservada, at or below the product's stock_minimo.
BajoMinimo(filas) == {f \in filas : cantidad_disponible(f) <= f.stock_minimo}

\* The rows out of stock: nothing available.
Agotados(filas) == {f \in filas : cantidad_disponible(f) <= 0}

\* C22: the low-stock query answers with exactly the rows whose
\* cantidad_actual - cantidad_reservada is at or below stock_minimo.
C22_BajoStockExacto ==
    informe.consulta = "bajo_stock" =>
        /\ informe.error = NoError
        /\ informe.results = BajoMinimo(inventarios)
        /\ informe.count = Cardinality(BajoMinimo(inventarios))

\* C23: the stock report answers with the sums of cantidad_actual and of
\* cantidad_reservada over all rows (0 for none) and with the sizes of the
\* low-stock and out-of-stock sets.
C23_TotalesExactos ==
    informe.consulta = "reporte_stock" =>
        /\ informe.error = NoError
        /\ informe.total_stock_actual = Sum(inventarios, "cantidad_actual")
        /\ informe.total_stock_reservado = Sum(inventarios, "cantidad_reservada")
        /\ informe.productos_bajo_stock = Cardinality(BajoMinimo(inventarios))
        /\ informe.productos_sin_stock = Cardinality(Agotados(inventarios))

\* C30: the low-stock count of the chatbot context and the low-stock
\* selection of the admin report are those of the rows whose available
\* quantity is at or below stock_minimo.
C30_MismoConjunto ==
    /\ informe.consulta = "contexto" =>
          informe.bajo_stock = Cardinality(BajoMinimo(inventarios))
    /\ informe.consulta = "admin" =>
          informe.bajo_stock = BajoMinimo(informe.queryset)

C21_ProtegidoPorMovimientos ==
    /\ [](tabla # <<>> => ~eliminado)
    /\ [][(tabla # <<>> /\ borrar' # borrar)
            => /\ borrar'.error # NoError
               /\ ~eliminado'
               /\ tabla' = tabla /\ db' = db]_vars

\* DELETE /api/inventarios/{id}/ has been refused on a row with a movement.
C21_Testigo ==
    /\ tabla # <<>>
    /\ ~eliminado
    /\ borrar.via = "api"
    /\ borrar.error = "ProtectedError"

====
